---- MODULE Spec2Model ----
(***************************************************************************)
(* Model of app.py, the office seating simulator: the session state        *)
(* (people, assign, overrides, locks), the handlers of the                 *)
(* "Assign / Toggle / Lock" and "Simulate" tabs, layout_score and          *)
(* propose_swaps.                                                          *)
(*                                                                         *)
(* Conventions.                                                            *)
(*  - A Python dict is a TLA+ function whose DOMAIN is the dict's key set. *)
(*  - Python's None is the string NoneVal; no person of the rosters used   *)
(*    here has that name.                                                  *)
(*  - Seat ids are the integers build_layout counts with (the code keeps   *)
(*    str(seat_id); ids are only compared for equality and used as keys).  *)
(*  - A score is kept as the integer 4000 * score, so that the team term   *)
(*    (count / 2) and the preference term ((200 - d) / 200, weight 0.3)    *)
(*    are exact.  On the floor slices used below every pair of seats is    *)
(*    either on one row or at least 200 px apart, so dist() is an integer. *)
(*  - The floor is a slice of the 92 seats of build_layout; the slice is   *)
(*    fixed by Init and never changes.                                     *)
(*  - The script is rerun for every click.  The suggestions are rendered  *)
(*    only by the run of the "Propose swaps" button, so every other        *)
(*    handler leaves the list empty; "Apply" acts on the list rendered by  *)
(*    the run before it.                                                   *)
(***************************************************************************)
EXTENDS Integers, Sequences, FiniteSets, TLC

VARIABLES
    SEATS_TEMPLATE,   \* ids of the seats of the floor (line 75)
    people,           \* st.session_state.people: sequence of records
    assign,           \* st.session_state.assign: dict seat id -> name
    overrides,        \* st.session_state.overrides: dict seat id -> status
    locks,            \* st.session_state.locks: dict seat id -> BOOLEAN
    suggestions,      \* the list of (a, b, delta) last rendered by tab_sim
    msg,              \* the last st.warning / st.success of a handler
    pc,               \* position of the running propose_swaps call
    frame,            \* locals of the running propose_swaps call
    arg0,             \* the caller's mapping as it was when the call began
    result            \* value or error of the last layout_score rendering

vars == <<SEATS_TEMPLATE, people, assign, overrides, locks, suggestions,
          msg, pc, frame, arg0, result>>

session == <<people, assign, overrides, locks>>

----------------------------------------------------------------------------
(* Bounds and inputs of the model *)

MaxIterations == 2      \* iterations of a propose_swaps call followed step by step
ClickIterations == 1    \* iterations of a call made by the Propose button

NoneVal == "None"
SELECT == "-- Select --"
NotInUse == "Not in Use"
Unassigned == "Unassigned"

EmptyDict == [k \in {} |-> NoneVal]

\* Slices of the floor used by the specifications.
OfficeFloor == {1, 2, 3}
ScenarioFloor == {1, 2, 61, 62}
StaleSeats == {93}

Roster ==
    << [name |-> "Ann", team |-> "X", near |-> "Bob"],
       [name |-> "Bob", team |-> "X", near |-> ""],
       [name |-> "Cid", team |-> "Y", near |-> "Ann"] >>

ScenarioPeople ==
    << [name |-> "Alice", team |-> "X", near |-> ""],
       [name |-> "Bob", team |-> "X", near |-> ""],
       [name |-> "Carol", team |-> "Y", near |-> ""] >>

----------------------------------------------------------------------------
(* dict operations *)

Get(d, k) == IF k \in DOMAIN d THEN d[k] ELSE NoneVal

Put(d, k, v) == [x \in (DOMAIN d) \cup {k} |-> IF x = k THEN v ELSE d[x]]

Pop(d, k) == [x \in (DOMAIN d) \ {k} |-> d[x]]

\* the exchange written as two assignments in a row
SwapEntriesInTurn(d, x, y) == Put(Put(d, x, Get(d, y)), y, Get(Put(d, x, Get(d, y)), x))

\* a[x], a[y] = a.get(y), a.get(x): both right-hand sides are read first
SwapEntries(d, x, y) == Put(Put(d, x, Get(d, y)), y, Get(d, x))

----------------------------------------------------------------------------
(* Floor: build_layout, dist, neighbors *)

Abs(n) == IF n < 0 THEN -n ELSE n

\* x of seat id: 5 bars of circles left (ids 1..60), 8 bars of ovals right
SeatX(id) ==
    IF id <= 60
    THEN LET c == ((id - 1) % 10) \div 2
             tx == 240 + c * 120
         IN IF (id - 1) % 2 = 0 THEN tx - 40 ELSE tx + 40 + 22
    ELSE 820 + 80 + ((id - 61) % 4) * 100

SeatY(id) ==
    IF id <= 60
    THEN 160 + ((id - 1) \div 10) * 85
    ELSE 80 + ((id - 61) \div 4) * 70 + 22 \div 2

ISqrt(n) == CHOOSE r \in 0..n : r * r <= n /\ n < (r + 1) * (r + 1)

\* math.hypot; exact when the two seats share a row or a column
dist(a, b) ==
    LET dx == Abs(SeatX(a) - SeatX(b))
        dy == Abs(SeatY(a) - SeatY(b))
    IN IF dy = 0 THEN dx ELSE IF dx = 0 THEN dy ELSE ISqrt(dx * dx + dy * dy)

radius_px == 120

neighbors(seat_id) ==
    IF seat_id \notin SEATS_TEMPLATE THEN {}
    ELSE {t \in SEATS_TEMPLATE :
            /\ t # seat_id
            /\ (SeatX(seat_id) - SeatX(t)) * (SeatX(seat_id) - SeatX(t))
               + (SeatY(seat_id) - SeatY(t)) * (SeatY(seat_id) - SeatY(t))
               <= radius_px * radius_px}

NEIGH_CACHE == [s \in SEATS_TEMPLATE |-> neighbors(s)]

----------------------------------------------------------------------------
(* People helpers *)

NoPerson == [name |-> NoneVal, team |-> "", near |-> ""]

person_by_name(name) ==
    LET hits == {i \in 1..Len(people) : people[i].name = name}
    IN IF hits = {} THEN NoPerson
       ELSE people[CHOOSE i \in hits : \A j \in hits : i <= j]

Known(name) == \E i \in 1..Len(people) : people[i].name = name

----------------------------------------------------------------------------
(* Scoring *)

neighbor_weight == 10      \* 1.0, in tenths
near_weight == 3           \* 0.3, in tenths
PrefRange == 200
KeyError == "KeyError"
StopIteration == "StopIteration"

\* the outcome of a call: the value returned or the exception raised
Returns(v) == [exc |-> "", val |-> v]

Raises(e) == [exc |-> e, val |-> 0]

IsError(r) == r.exc # ""

RECURSIVE SumOver(_, _)
SumOver(S, d) ==
    IF S = {} THEN 0
    ELSE LET k == CHOOSE k \in S : TRUE IN d[k] + SumOver(S \ {k}, d)

\* seats whose occupant is in the roster: the entries both loops look at
ScoredSeats(assigned) == {sid \in DOMAIN assigned : Known(assigned[sid])}

\* the team term when the teams of the two neighbours are not compared
TeamPairsAnyTeam(assigned) ==
    {pr \in ScoredSeats(assigned) \X SEATS_TEMPLATE :
        LET sid == pr[1]
            nid == pr[2]
            name == assigned[sid]
            other == Get(assigned, nid)
        IN /\ nid \in NEIGH_CACHE[sid]
           /\ other # NoneVal /\ other # "" /\ other # name
           /\ Known(other)}

\* ordered pairs (sid, nid) that add 1 to team_score (lines 177-186)
TeamPairs(assigned) ==
    {pr \in ScoredSeats(assigned) \X SEATS_TEMPLATE :
        LET sid == pr[1]
            nid == pr[2]
            name == assigned[sid]
            team == person_by_name(name).team
            other == Get(assigned, nid)
        IN /\ nid \in NEIGH_CACHE[sid]
           /\ other # NoneVal /\ other # "" /\ other # name
           /\ Known(other)
           /\ person_by_name(other).team = team
           /\ team # ""}

\* reverse = {n: sid for sid, n in assigned.items()}; reverse.get(near)
ReverseGet(assigned, near) ==
    IF \E sid \in DOMAIN assigned : assigned[sid] = near
    THEN CHOOSE sid \in DOMAIN assigned : assigned[sid] = near
    ELSE 0

\* seats whose occupant has a near target that is seated (lines 189-196)
PrefSeats(assigned) ==
    {sid \in ScoredSeats(assigned) :
        LET near == person_by_name(assigned[sid]).near
        IN near # "" /\ ReverseGet(assigned, near) # 0}

PrefTerm(assigned) ==
    LET S == PrefSeats(assigned)
        contrib == [sid \in S |->
            LET s2 == ReverseGet(assigned, person_by_name(assigned[sid]).near)
                dpx == dist(sid, s2)
            IN IF PrefRange - dpx > 0 THEN PrefRange - dpx ELSE 0]
    IN SumOver(S, contrib)

\* 4000 * layout_score(assigned), or the exception the call raises
layout_score(assigned) ==
    IF \E sid \in ScoredSeats(assigned) : sid \notin DOMAIN NEIGH_CACHE
    THEN Raises(KeyError)
    ELSE IF \E sid \in PrefSeats(assigned) :
              \/ sid \notin SEATS_TEMPLATE
              \/ ReverseGet(assigned, person_by_name(assigned[sid]).near)
                    \notin SEATS_TEMPLATE
    THEN Raises(StopIteration)
    ELSE Returns(neighbor_weight * PrefRange * Cardinality(TeamPairs(assigned))
                 + near_weight * 2 * PrefTerm(assigned))

----------------------------------------------------------------------------
(* propose_swaps *)

EPS == 40                  \* delta > 0.01, in units of 1/4000
TOP_K == 5

NoFrame == [work |-> EmptyDict, ref |-> "copy", base |-> Returns(0),
            best_moves |-> <<>>, movable |-> {}, left |-> 0]

\* the object the local name `assigned` is bound to after a bad rebinding
LocalBindingAlias == "caller"

\* assigned = dict(assigned): the local name is bound to a fresh copy
LocalBinding == "copy"

\* movable seats when the lock filter is left out
MovableIgnoringLocks(ov, lk) ==
    {sid \in SEATS_TEMPLATE : (IF sid \in DOMAIN ov THEN ov[sid] ELSE Unassigned) # NotInUse}

\* seat_ids filtered by overrides, then by locks (lines 208-209)
Movable(ov, lk) ==
    {sid \in SEATS_TEMPLATE :
        /\ (IF sid \in DOMAIN ov THEN ov[sid] ELSE Unassigned) # NotInUse
        /\ ~(IF sid \in DOMAIN lk THEN lk[sid] ELSE FALSE)}

\* random.sample(movable, 2): any ordered pair of distinct movable seats
Picks(movable) == {pr \in movable \X movable : pr[1] # pr[2]}

\* the dict the local name `assigned` denotes
Deref(caller, f) == IF f.ref = "copy" THEN f.work ELSE caller

\* the caller's dict and the frame after a write through the local name
Store(caller, f, d) ==
    IF f.ref = "copy"
    THEN [caller |-> caller, frame |-> [f EXCEPT !.work = d]]
    ELSE [caller |-> d, frame |-> f]

\* round(delta, 3) in thousandths; delta is kept in units of 1/4000
Round3(delta) == (delta + 2) \div 4

\* lines 205-210: the frame on entry to the loop (base may be an error)
StartFrame(caller, ov, lk, iterations) ==
    [work |-> caller, ref |-> LocalBinding, base |-> layout_score(caller),
     best_moves |-> <<>>, movable |-> Movable(ov, lk), left |-> iterations]

\* one pass of the loop body (lines 212-221) with the pair (a, b)
TrialStep(caller, f, a, b) ==
    LET tried == Store(caller, f, SwapEntries(Deref(caller, f), a, b))
        d1 == Deref(tried.caller, tried.frame)
        sc == layout_score(d1)
        delta == sc.val - f.base.val
    IN IF delta > EPS
       THEN [caller |-> tried.caller,
             frame |-> [tried.frame EXCEPT
                          !.best_moves = Append(@, <<a, b, Round3(delta)>>),
                          !.base = sc,
                          !.left = @ - 1]]
       ELSE LET back == Store(tried.caller, tried.frame, SwapEntries(d1, a, b))
            IN [caller |-> back.caller,
                frame |-> [back.frame EXCEPT !.left = @ - 1]]

\* sorted(best_moves, key=lambda x: -x[2]): stable, largest delta first
RECURSIVE SortByDelta(_)
SortByDelta(moves) ==
    IF moves = <<>> THEN <<>>
    ELSE LET n == Len(moves)
             init == SortByDelta(SubSeq(moves, 1, n - 1))
             m == moves[n]
             keep == {i \in 1..Len(init) : init[i][3] >= m[3]}
             k == Cardinality(keep)
         IN SubSeq(init, 1, k) \o <<m>> \o SubSeq(init, k + 1, Len(init))

\* lines 223-228: drop repeated unordered pairs, stop at TOP_K
RECURSIVE Dedup(_, _, _)
Dedup(sorted, seen, uniq) ==
    IF sorted = <<>> \/ Len(uniq) >= TOP_K THEN uniq
    ELSE LET m == Head(sorted)
             key == {m[1], m[2]}
         IN IF key \in seen THEN Dedup(Tail(sorted), seen, uniq)
            ELSE Dedup(Tail(sorted), seen \cup {key}, Append(uniq, m))

Uniq(best_moves) == Dedup(SortByDelta(best_moves), {}, <<>>)

\* the whole loop for a given sequence of sampled pairs
RECURSIVE RunTrials(_, _, _)
RunTrials(caller, f, picks) ==
    IF picks = <<>> THEN [caller |-> caller, frame |-> f]
    ELSE LET after == TrialStep(caller, f, Head(picks)[1], Head(picks)[2])
         IN RunTrials(after.caller, after.frame, Tail(picks))

----------------------------------------------------------------------------
(* propose_swaps, one step at a time *)

\* the call: the arguments are bound, nothing has run yet
ProposeCall ==
    /\ pc = "idle"
    /\ \E iterations \in 0..MaxIterations :
         frame' = [NoFrame EXCEPT !.left = iterations]
    /\ pc' = "called"
    /\ arg0' = assign
    /\ UNCHANGED <<SEATS_TEMPLATE, session, suggestions, msg, result>>

ProposeStart ==
    /\ pc = "called"
    /\ LET f == StartFrame(assign, overrides, locks, frame.left)
       IN /\ frame' = f
          /\ IF IsError(f.base)
             THEN pc' = "raised" /\ suggestions' = suggestions
             ELSE IF Cardinality(f.movable) < 2
             THEN pc' = "done" /\ suggestions' = <<>>
             ELSE pc' = "loop" /\ suggestions' = suggestions
    /\ UNCHANGED <<SEATS_TEMPLATE, session, msg, arg0, result>>

ProposeTrial ==
    /\ pc = "loop"
    /\ frame.left > 0
    /\ \E pr \in Picks(frame.movable) :
         LET after == TrialStep(assign, frame, pr[1], pr[2])
         IN /\ assign' = after.caller
            /\ frame' = after.frame
    /\ UNCHANGED <<SEATS_TEMPLATE, people, overrides, locks, suggestions,
                   msg, pc, arg0, result>>

ProposeReturn ==
    /\ pc = "loop"
    /\ frame.left = 0
    /\ suggestions' = Uniq(frame.best_moves)
    /\ pc' = "done"
    /\ UNCHANGED <<SEATS_TEMPLATE, session, msg, frame, arg0, result>>

NextPropose == ProposeCall \/ ProposeStart \/ ProposeTrial \/ ProposeReturn

----------------------------------------------------------------------------
(* Handlers of the "People" and "Assign / Toggle / Lock" tabs *)

Quiet == "none"

OverrideOf(sid) == IF sid \in DOMAIN overrides THEN overrides[sid] ELSE Unassigned

LockOf(sid) == IF sid \in DOMAIN locks THEN locks[sid] ELSE FALSE

Names == {people[i].name : i \in 1..Len(people)}

\* for k, v in list(assign.items()): if v == person: assign.pop(k)
RemovePerson(d, person) == [k \in {x \in DOMAIN d : d[x] # person} |-> d[k]]

\* Assign / Move that removes the person before it looks at the target
AssignResultEager(person, sid) ==
    IF person = SELECT THEN assign
    ELSE IF OverrideOf(sid) = NotInUse \/ LockOf(sid)
    THEN RemovePerson(assign, person)
    ELSE Put(RemovePerson(assign, person), sid, person)

\* Assign / Move that leaves the person's old seat in place
AssignResultNoRemove(person, sid) ==
    IF person = SELECT \/ OverrideOf(sid) = NotInUse \/ LockOf(sid)
    THEN assign
    ELSE Put(assign, sid, person)

\* st.session_state.assign after the Assign / Move branch (lines 302-317)
AssignResult(person, sid) ==
    IF person = SELECT THEN assign
    ELSE IF OverrideOf(sid) = NotInUse THEN assign
    ELSE IF LockOf(sid) THEN assign
    ELSE Put(RemovePerson(assign, person), sid, person)

\* the message of the Assign / Move branch
AssignMessage(person, sid) ==
    IF person = SELECT THEN "pick a person"
    ELSE IF OverrideOf(sid) = NotInUse THEN "not in use"
    ELSE IF LockOf(sid) THEN "locked"
    ELSE "assigned"

AddPerson ==
    /\ pc = "idle"
    /\ Len(people) < Len(Roster)
    /\ people' = Append(people, Roster[Len(people) + 1])
    /\ msg' = "added"
    /\ UNCHANGED <<SEATS_TEMPLATE, assign, overrides, locks,
                   pc, frame, arg0, result>>
    /\ suggestions' = <<>>

AssignMove ==
    /\ pc = "idle"
    /\ \E person \in Names \cup {SELECT}, sid \in SEATS_TEMPLATE :
         /\ assign' = AssignResult(person, sid)
         /\ msg' = AssignMessage(person, sid)
    /\ UNCHANGED <<SEATS_TEMPLATE, people, overrides, locks,
                   pc, frame, arg0, result>>
    /\ suggestions' = <<>>

ClearSeat ==
    /\ pc = "idle"
    /\ \E sid \in SEATS_TEMPLATE :
         IF sid \in DOMAIN assign
         THEN assign' = Pop(assign, sid) /\ msg' = "cleared"
         ELSE assign' = assign /\ msg' = Quiet
    /\ UNCHANGED <<SEATS_TEMPLATE, people, overrides, locks,
                   pc, frame, arg0, result>>
    /\ suggestions' = <<>>

ToggleNotInUse ==
    /\ pc = "idle"
    /\ \E sid \in SEATS_TEMPLATE :
         LET new == IF OverrideOf(sid) # NotInUse THEN NotInUse ELSE Unassigned
         IN /\ assign' = IF new = NotInUse /\ sid \in DOMAIN assign
                         THEN Pop(assign, sid) ELSE assign
            /\ overrides' = Put(overrides, sid, new)
    /\ msg' = "status"
    /\ UNCHANGED <<SEATS_TEMPLATE, people, locks,
                   pc, frame, arg0, result>>
    /\ suggestions' = <<>>

ToggleLock ==
    /\ pc = "idle"
    /\ \E sid \in SEATS_TEMPLATE : locks' = Put(locks, sid, ~LockOf(sid))
    /\ msg' = "lock"
    /\ UNCHANGED <<SEATS_TEMPLATE, people, assign, overrides,
                   pc, frame, arg0, result>>
    /\ suggestions' = <<>>

----------------------------------------------------------------------------
(* Handlers of the "Simulate" tab *)

\* "Propose swaps": the whole call of propose_swaps and the rendering of
\* its suggestions (lines 342-352)
ProposeClick ==
    /\ pc = "idle"
    /\ \E iters \in 1..ClickIterations :
         LET f == StartFrame(assign, overrides, locks, iters)
         IN IF IsError(f.base)
            THEN /\ pc' = "raised"
                 /\ UNCHANGED <<assign, suggestions, msg>>
            ELSE IF Cardinality(f.movable) < 2
            THEN /\ suggestions' = <<>>
                 /\ msg' = "no swaps"
                 /\ UNCHANGED <<assign, pc>>
            ELSE \E picks \in [1..iters -> Picks(f.movable)] :
                   LET after == RunTrials(assign, f, picks)
                       uniq == Uniq(after.frame.best_moves)
                   IN /\ assign' = after.caller
                      /\ suggestions' = uniq
                      /\ msg' = IF uniq = <<>> THEN "no swaps" ELSE "proposed"
                      /\ pc' = pc
    /\ UNCHANGED <<SEATS_TEMPLATE, people, overrides, locks, frame, arg0, result>>

\* "Apply (+delta)" of the i-th rendered suggestion (lines 353-361)
ApplySuggestion ==
    /\ pc = "idle"
    /\ \E i \in 1..Len(suggestions) :
         LET a == suggestions[i][1]
             b == suggestions[i][2]
         IN IF LockOf(a) \/ LockOf(b)
            THEN assign' = assign /\ msg' = "apply: locked"
            ELSE IF OverrideOf(a) = NotInUse \/ OverrideOf(b) = NotInUse
            THEN assign' = assign /\ msg' = "apply: not in use"
            ELSE assign' = SwapEntries(assign, a, b) /\ msg' = "swapped"
    /\ UNCHANGED <<SEATS_TEMPLATE, people, overrides, locks,
                   pc, frame, arg0, result>>
    /\ suggestions' = <<>>

----------------------------------------------------------------------------
(* The session: the state after init_state and the user's actions *)

Init ==
    /\ SEATS_TEMPLATE = OfficeFloor
    /\ people = <<>>
    /\ assign = EmptyDict
    /\ overrides = [s \in OfficeFloor |-> Unassigned]
    /\ locks = [s \in OfficeFloor |-> FALSE]
    /\ suggestions = <<>>
    /\ msg = Quiet
    /\ pc = "idle"
    /\ frame = NoFrame
    /\ arg0 = EmptyDict
    /\ result = Returns(0)

Next ==
    \/ AddPerson
    \/ AssignMove
    \/ ClearSeat
    \/ ToggleNotInUse
    \/ ToggleLock
    \/ ProposeClick
    \/ ApplySuggestion

Spec == Init /\ [][Next]_vars

----------------------------------------------------------------------------
(* propose_swaps on its own: every input over the office floor *)

\* dicts with keys in seats and values in vals
Dicts(seats, vals) == UNION {[D -> vals] : D \in SUBSET seats}

\* each person name is the value of at most one key
NamesOnce(d) ==
    \A x \in DOMAIN d, y \in DOMAIN d : (d[x] = d[y] /\ d[x] # NoneVal) => x = y

RosterNames == {Roster[i].name : i \in 1..Len(Roster)}

InitPropose ==
    /\ SEATS_TEMPLATE = OfficeFloor
    /\ people = Roster
    /\ assign \in {d \in Dicts(OfficeFloor, RosterNames \cup {NoneVal}) : NamesOnce(d)}
    /\ overrides \in [OfficeFloor -> {Unassigned, NotInUse}]
    /\ locks \in [OfficeFloor -> BOOLEAN]
    /\ suggestions = <<>>
    /\ msg = Quiet
    /\ pc = "idle"
    /\ frame = NoFrame
    /\ arg0 = EmptyDict
    /\ result = Returns(0)

SpecPropose == InitPropose /\ [][NextPropose]_vars

----------------------------------------------------------------------------
(* The scenario: Alice and Bob (team X) apart, Carol (team Y) next to Alice. *)
(* Seats 1, 2 and seats 61, 62 of the template are the two neighbour pairs;  *)
(* S1-S2 is one pair and S3-S4 the other, in either order.                   *)

ScenarioAssign(S1, S2, S4) ==
    [s \in {S1, S2, S4} |->
        IF s = S1 THEN "Alice" ELSE IF s = S4 THEN "Bob" ELSE "Carol"]

InitScenario ==
    /\ SEATS_TEMPLATE = ScenarioFloor
    /\ people = ScenarioPeople
    /\ \E S1 \in {1, 2}, S4 \in {61, 62} :
         assign = ScenarioAssign(S1, 3 - S1, S4)
    /\ overrides = [s \in ScenarioFloor |-> Unassigned]
    /\ locks = [s \in ScenarioFloor |-> FALSE]
    /\ suggestions = <<>>
    /\ msg = Quiet
    /\ pc = "idle"
    /\ frame = NoFrame
    /\ arg0 = EmptyDict
    /\ result = Returns(0)

SpecScenario == InitScenario /\ [][NextPropose]_vars

----------------------------------------------------------------------------
(* A session that loads a snapshot written for another floor *)

\* the roster without the person the first one wants to sit near
RosterWithoutBob == <<Roster[1], Roster[3]>>

Snapshots ==
    {[people |-> p, assign |-> d] :
        p \in {Roster, RosterWithoutBob},
        d \in {d \in Dicts(OfficeFloor \cup StaleSeats, RosterNames) : NamesOnce(d)}}

\* import_json of a snapshot that has the keys people and assign
ImportJson ==
    /\ pc = "idle"
    /\ \E data \in Snapshots :
         /\ people' = data.people
         /\ assign' = data.assign
    /\ msg' = "loaded"
    /\ UNCHANGED <<SEATS_TEMPLATE, overrides, locks, suggestions,
                   pc, frame, arg0, result>>

\* current = layout_score(st.session_state.assign) of tab_sim (line 339)
RenderScore ==
    /\ pc = "idle"
    /\ result' = layout_score(assign)
    /\ pc' = IF IsError(layout_score(assign)) THEN "raised" ELSE pc
    /\ UNCHANGED <<SEATS_TEMPLATE, session, suggestions, msg, frame, arg0>>

NextStale == ImportJson \/ RenderScore \/ NextPropose

SpecStale == Init /\ [][NextStale]_vars

----------------------------------------------------------------------------
(* Properties *)

\* seats that hold a person
Occupied(d) == {k \in DOMAIN d : d[k] # NoneVal}

InCall == pc \in {"called", "loop", "done", "raised"}

Suggested == {suggestions[i] : i \in 1..Len(suggestions)}

\* C1: in every state the user's actions reach from the empty assignment,
\* each person name is the occupant of at most one seat.
C1_OneSeatPerPerson == NamesOnce(assign)

\* a move has just been applied and every seat holds a person of the roster
C1_Witness ==
    /\ msg = "assigned"
    /\ Len(people) = Len(Roster)
    /\ Occupied(assign) = SEATS_TEMPLATE

\* C2: no suggestion returned by propose_swaps names a seat that was locked
\* or Not in Use when the call was made.
C2_SuggestionsMovable ==
    pc = "done" =>
        \A m \in Suggested :
            /\ ~LockOf(m[1]) /\ ~LockOf(m[2])
            /\ OverrideOf(m[1]) # NotInUse /\ OverrideOf(m[2]) # NotInUse

\* a call returned a suggestion while a seat holding a person was locked
C2_Witness ==
    /\ pc = "done"
    /\ suggestions # <<>>
    /\ \E s \in Occupied(assign) : LockOf(s)

\* C3: from the call of propose_swaps to its return, through every accepted
\* and reverted trial, the caller's mapping has the keys and values it had
\* when the call was made.
C3_CallerUnchanged == InCall => assign = arg0

\* a call returned after it accepted a trial swap on its working copy
C3_Witness ==
    /\ pc = "done"
    /\ frame.best_moves # <<>>
    /\ frame.work # arg0

\* C4: an Assign / Move whose target seat is locked or Not in Use changes
\* none of occupancy, overrides and locks.
C4_RejectedAssignKeepsState ==
    [][msg' \in {"locked", "not in use"} =>
          (assign' = assign /\ overrides' = overrides /\ locks' = locks)]_vars

\* a move onto a locked seat was refused while every person of the roster
\* was seated and every locked seat was vacant
C4_Witness ==
    /\ msg = "locked"
    /\ Names # {}
    /\ \A n \in Names : \E s \in DOMAIN assign : assign[s] = n
    /\ \A s \in SEATS_TEMPLATE : LockOf(s) => s \notin DOMAIN assign

\* C5: layout_score and propose_swaps raise no error when the occupancy
\* mapping has an entry whose seat id is not in the floor.
C5_NoErrorOnStaleData == pc # "raised" /\ ~IsError(result)

\* C6: inside propose_swaps, after every trial swap each person name still
\* appears at most once in the working mapping and the number of occupied
\* seats is what it was before the trials.
C6_TrialsKeepOccupants ==
    pc \in {"loop", "done"} =>
        /\ NamesOnce(Deref(assign, frame))
        /\ Cardinality(Occupied(Deref(assign, frame))) = Cardinality(Occupied(arg0))

\* a trial was accepted in a call on a mapping that seats two people or more
C6_Witness ==
    /\ pc = "loop"
    /\ frame.best_moves # <<>>
    /\ Cardinality(Occupied(arg0)) >= 2

\* C7: every suggestion returned by propose_swaps, applied on its own to
\* the assignment passed in, gives a strictly greater layout score.
C7_EachSuggestionImproves ==
    pc = "done" =>
        \A m \in Suggested :
            layout_score(SwapEntries(arg0, m[1], m[2])).val > layout_score(arg0).val

\* C8 as stated: in the scenario the team term is 0 and propose_swaps
\* returns an empty list for every iteration count and every pick sequence.
C8_ScenarioNoSuggestion ==
    /\ pc = "called" => Cardinality(TeamPairs(assign)) = 0
    /\ pc = "done" => suggestions = <<>>

\* the seat a person holds in the mapping passed to the call
SeatAtCall(name) == CHOOSE s \in DOMAIN arg0 : arg0[s] = name

VacantAtCall == CHOOSE s \in SEATS_TEMPLATE : s \notin DOMAIN arg0

\* C8, amended: in the scenario the team term is 0 and propose_swaps
\* returns either an empty list or exactly one suggestion, which exchanges
\* Carol's seat with Bob's or Alice's seat with the vacant one, delta 1.0.
C8_ScenarioOneSwapAtMost ==
    /\ pc = "called" => Cardinality(TeamPairs(assign)) = 0
    /\ pc = "done" =>
         \/ suggestions = <<>>
         \/ /\ Len(suggestions) = 1
            /\ suggestions[1][3] = 1000
            /\ {suggestions[1][1], suggestions[1][2]} \in
                 {{SeatAtCall("Carol"), SeatAtCall("Bob")},
                  {SeatAtCall("Alice"), VacantAtCall}}

\* a call in the scenario returned a suggestion
C8_Witness == pc = "done" /\ suggestions # <<>>

\* C9: every key of the occupancy mapping maps to a person name; a vacant
\* seat is absent from the mapping.
C9_VacantSeatsAbsent == \A k \in DOMAIN assign : assign[k] # NoneVal

\* C10: while a seat stays locked, no action adds, removes or replaces its
\* occupant.
C10_LockedSeatPinned ==
    [][\A s \in SEATS_TEMPLATE :
          (LockOf(s) /\ s \in DOMAIN locks' /\ locks'[s]) =>
              /\ (s \in DOMAIN assign') = (s \in DOMAIN assign)
              /\ (s \in DOMAIN assign => assign'[s] = assign[s])]_vars

====
